---- MODULE Spec2Model ----
(***************************************************************************)
(* Model of the diary application (Django): the Diary table, the requests  *)
(* of diary/views.py as interleaved processes (each database statement is  *)
(* one step), the mail outbox and the answer a step gives to a request.    *)
(***************************************************************************)
EXTENDS Integers, Sequences, FiniteSets, Bags, TLC

(* ------------------------------ bounds -------------------------------- *)
\* worker processes: the requests that can be in flight at the same time
MaxReq == 2
\* worker processes plus rows ever inserted (1 worker and 2 rows, or 2 and 1)
MaxLoad == 3
\* view-count increments per entry
MaxReads == 2
\* mails handed to the transport
MaxMails == 2

(* --------------------------- program constants ------------------------ *)
\* views.py:107  if diary.views >= 100
NotifyThreshold == 100

(* ------------------------------- users -------------------------------- *)
Users == {"alice", "bob"}
\* holders of the permission diary.can_moderate (models.py:108-110)
Moderators == {"bob"}
\* request.user of a request without a session (AnonymousUser)
Anon == "anonymous"
Requesters == Users \cup {Anon}
Null == "null"

(* ------------------------------- titles ------------------------------- *)
\* titles are sequences of characters
TitleNote == <<"N", "o", "t", "e">>
TitleAB == <<"a", " ", "b">>
Titles == {TitleNote, TitleAB}

\* str.lower() on the characters the titles use
Lower(c) ==
    CASE c = "N" -> "n"
      [] c = "A" -> "a"
      [] c = "B" -> "b"
      [] OTHER -> c

\* pytils ALPHABET restricted to the characters the titles use
SlugAlphabet == {"n", "o", "t", "e", "a", "b", "-", "0", "1", "2", "3", "4",
                 "5", "6", "7", "8", "9"}

IsSpaceOrHyphen(c) == c \in {" ", "-"}

\* re.sub('[-\s]+', '-', s): every run of spaces and hyphens becomes one hyphen
RECURSIVE CollapseSpaces(_)
CollapseSpaces(s) ==
    IF s = <<>> THEN <<>>
    ELSE IF IsSpaceOrHyphen(Head(s))
         THEN IF Len(s) > 1 /\ IsSpaceOrHyphen(s[2])
              THEN CollapseSpaces(Tail(s))
              ELSE <<"-">> \o CollapseSpaces(Tail(s))
         ELSE <<Head(s)>> \o CollapseSpaces(Tail(s))

\* ''.join(symb for symb in s if symb in ALPHABET)
KeepAlphabet(s) == SelectSeq(s, LAMBDA c : c \in SlugAlphabet)

\* pytils.translit.slugify: lower, hyphenate the blanks, drop foreign symbols
slugify(title) ==
    KeepAlphabet(CollapseSpaces([i \in 1..Len(title) |-> Lower(title[i])]))

\* str(num) of f"{slug}-{num}"
DigitChar(d) ==
    CASE d = 0 -> "0" [] d = 1 -> "1" [] d = 2 -> "2" [] d = 3 -> "3"
      [] d = 4 -> "4" [] d = 5 -> "5" [] d = 6 -> "6" [] d = 7 -> "7"
      [] d = 8 -> "8" [] OTHER -> "9"

RECURSIVE Decimal(_)
Decimal(n) ==
    IF n < 10 THEN <<DigitChar(n)>>
    ELSE Decimal(n \div 10) \o <<DigitChar(n % 10)>>

(* ------------------------------- state -------------------------------- *)
VARIABLES
    diaries,    \* the Diary table: primary key -> row
    nextPk,     \* the next primary key of the table
    reqs,       \* the requests in flight (a bag: two of them may be alike)
    outbox,     \* the mails handed to the mail transport (django.core.mail)
    workers,    \* the worker processes of the deployment (fixed at start)
    resp,       \* the answer the last step gave to a request, if it gave one
    reads,      \* history: per entry, the get_object calls that counted a view
    created,    \* history: per entry, the view-count it was inserted with
    accounts,   \* the User table: email -> row
    nextToken,  \* the verification codes secrets.token_hex has given out, plus 1
    ureqs,      \* the requests of users/views.py in flight
    used,       \* history: the confirmations carried out, as code and account
    approved    \* history: the approvals saved, as entry and moderator

\* the state of the account views, and the state of the diary views
uvars == <<accounts, nextToken, ureqs, used>>
dvars == <<diaries, nextPk, reqs, reads, created, approved>>

vars == <<diaries, nextPk, reqs, workers, outbox, resp, reads, created,
          accounts, nextToken, ureqs, used, approved>>

Pks == DOMAIN diaries

\* the fields of a row that requests read; the title is read for the slug only
NoObj == [slug |-> <<>>, author |-> Null,
          is_published |-> FALSE, status |-> "no_published", views |-> 0]

\* a request in flight: the view, the statement it runs next, the row it
\* loaded (pk, obj), its form field, and (history) who sent it
Req(op, pc, pk, obj, arg, by) ==
    [op |-> op, pc |-> pc, pk |-> pk, obj |-> obj, arg |-> arg, by |-> by]

InFlight == BagToSet(reqs)

\* HTTP answers: "200", "302" (the redirect after success), "403"
\* (PermissionDenied), "404" (Http404), "500" (an uncaught exception) and
\* "login" (LoginRequiredMixin redirects a requester without a session)
NoResp == [op |-> "none", code |-> "none", by |-> Anon]

\* a slug no entry has
MissingSlug == <<"n", "o">>

\* Diary.objects.filter(slug=s)
BySlug(s) == {pk \in Pks : diaries[pk].slug = s}

\* Diary.objects.filter(author=u, slug=s)
OwnBySlug(u, s) == {pk \in BySlug(s) : diaries[pk].author = u}

\* the slugs a URL <slug:slug> can carry
StoredSlugs == {diaries[pk].slug : pk \in Pks} \ {<<>>}
UrlSlugs == StoredSlugs \cup {MissingSlug}

\* Model.save() of a loaded object: UPDATE by pk, INSERT when no row matched
WriteRow(pk, obj) == [p \in Pks \cup {pk} |-> IF p = pk THEN obj ELSE diaries[p]]

\* Diary.get_unique_slug: the base slug, then base-1, base-2, ... until free
RECURSIVE UniqueSlugFrom(_, _, _)
UniqueSlugFrom(slug, unique_slug, num) ==
    IF BySlug(unique_slug) # {}
    THEN UniqueSlugFrom(slug, slug \o <<"-">> \o Decimal(num), num + 1)
    ELSE unique_slug

get_unique_slug(title) == UniqueSlugFrom(slugify(title), slugify(title), 1)

\* Diary.save: the slug is generated only when the object has none
SlugForSave(slug, title) == IF slug = <<>> THEN get_unique_slug(title) ELSE slug

\* Diary.save of a loaded object: it has its slug (every title has letters, so
\* no row is stored without one), and every field is written
SaveRow(pk, obj) == WriteRow(pk, obj)

Init ==
    /\ diaries = <<>>
    /\ nextPk = 1
    /\ reqs = EmptyBag
    /\ workers \in 1..MaxReq
    /\ outbox = <<>>
    /\ resp = NoResp
    /\ reads = <<>>
    /\ created = <<>>
    /\ accounts = <<>>
    /\ nextToken = 1
    /\ ureqs = EmptyBag
    /\ used = {}
    /\ approved = {}

(* ---------------------------- the operations --------------------------- *)
\* a worker is free to take a request
CanStart == BagCardinality(reqs) + BagCardinality(ureqs) < workers

\* a step that answers no request leaves resp at NoResp
\* history: who sent a request is remembered for the submit, for the
\* moderation requests and for update and delete
Sender(op, u) ==
    IF op \in {"detail_post", "moderate", "moderation_list", "update", "delete"}
    THEN u ELSE Anon

\* the steps of the diary views; none of them touches the accounts
Start(r) ==
    reqs' = reqs (+) SetToBag({r}) /\ resp' = NoResp /\ UNCHANGED uvars
Step(r, r2) ==
    /\ reqs' = (reqs (-) SetToBag({r})) (+) SetToBag({r2})
    /\ resp' = NoResp
    /\ UNCHANGED uvars
Finish(r, code) ==
    /\ reqs' = reqs (-) SetToBag({r})
    /\ resp' = [op |-> r.op, code |-> code, by |-> r.by]
    /\ UNCHANGED uvars
\* a request answered by its first statement never is in flight
Answer(op, u, code) ==
    /\ reqs' = reqs
    /\ resp' = [op |-> op, code |-> code, by |-> Sender(op, u)]
    /\ UNCHANGED uvars

\* rows inserted so far plus the inserts in flight stay within the bound
PendingInserts ==
    BagCardinality([r \in {x \in InFlight : x.pc = "insert"} |-> reqs[r]])
      + BagCardinality([r \in {x \in BagToSet(ureqs) : x.pc = "insert"} |-> ureqs[r]])
CanInsert ==
    nextPk + Cardinality(DOMAIN accounts) + PendingInserts <= MaxLoad - workers

InsertRow(obj) ==
    /\ diaries' = WriteRow(nextPk, obj)
    /\ created' = [p \in DOMAIN created \cup {nextPk} |->
                      IF p = nextPk THEN obj.views ELSE created[p]]
    /\ reads' = [p \in DOMAIN reads \cup {nextPk} |->
                      IF p = nextPk THEN 0 ELSE reads[p]]
    /\ nextPk' = nextPk + 1

\* the view-counts Diary.objects.create is called with (tests.py: 0 and 99),
\* and the counts on both sides of 99
ViewSeeds == {0, NotifyThreshold - 2, NotifyThreshold - 1, NotifyThreshold}

\* Diary.objects.create(title, author, is_published, views): Diary.save first
\* asks the table for a free slug ...
ModelCreateSlug(title, author, pub, views) ==
    /\ CanStart
    /\ CanInsert
    /\ Start(Req("model_create", "insert", 0,
                 [slug |-> SlugForSave(<<>>, title),
                  author |-> author, is_published |-> pub,
                  status |-> "no_published", views |-> views], "", Anon))
    /\ UNCHANGED <<diaries, nextPk, workers, outbox, reads, created, approved>>

\* ... and then inserts the row
ModelCreateInsert(r) ==
    /\ r.op = "model_create"
    /\ r.pc = "insert"
    /\ InsertRow(r.obj)
    /\ reqs' = reqs (-) SetToBag({r})
    /\ resp' = NoResp
    /\ UNCHANGED <<workers, outbox, accounts, nextToken, ureqs, used, approved>>

\* DiaryForm.save(commit=False): the form sets the slug from the title itself
DiaryFormObj(title) ==
    [slug |-> slugify(title), author |-> Null,
     is_published |-> FALSE, status |-> "no_published", views |-> 0]

\* POST /create/: DiaryCreateView.form_valid up to diary.save()
CreateStart(u, title) ==
    /\ CanStart
    /\ IF u = Anon
       THEN /\ Answer("create", u, "login")
            /\ UNCHANGED <<diaries, nextPk, workers, outbox, reads, created, approved>>
       ELSE
         /\ CanInsert
         /\ LET form == [DiaryFormObj(title) EXCEPT !.author = u]
                obj == [form EXCEPT !.slug = SlugForSave(form.slug, title)]
            IN /\ InsertRow(obj)
               /\ Start(Req("create", "resave", nextPk, obj, "", Anon))
         /\ UNCHANGED <<workers, outbox, approved>>

\* super().form_valid(form): form.save() saves the same instance once more
CreateResave(r) ==
    /\ r.op = "create"
    /\ r.pc = "resave"
    /\ diaries' = SaveRow(r.pk, r.obj)
    /\ Finish(r, "302")
    /\ UNCHANGED <<nextPk, workers, outbox, reads, created, approved>>

NextCreate ==
    \/ \E u \in Requesters, t \in Titles : CreateStart(u, t)
    \/ \E r \in InFlight : CreateResave(r)

NextModelCreate ==
    \/ \E t \in Titles, a \in Users, p \in BOOLEAN, v \in ViewSeeds :
            ModelCreateSlug(t, a, p, v)
    \/ \E r \in InFlight : ModelCreateInsert(r)

(* ------------------------- DiaryDetailView ---------------------------- *)
\* queryset.get(): Http404 for no row, MultipleObjectsReturned is not caught
Lookup(found) ==
    IF found = {} THEN "404" ELSE IF Cardinality(found) > 1 THEN "500" ELSE "ok"

TheRow(found) == CHOOSE p \in found : TRUE

\* views.py:98  the guard in front of an entry that is not published
CanView(u, obj) == obj.is_published \/ u = obj.author

\* views.py:95-99  super().get_object(), then the access check
DetailGate(u, slug) ==
    IF Lookup(BySlug(slug)) # "ok" THEN Lookup(BySlug(slug))
    ELSE IF CanView(u, diaries[TheRow(BySlug(slug))]) THEN "ok" ELSE "403"

\* views.py:102  only a published entry counts its views
CountsView(obj) == obj.is_published

\* the load-mutate-store the relative update stands in for:
\* diary.views += 1; diary.save(update_fields=["views"])
IncrementViewsFromLoaded(pk, obj) ==
    [p \in Pks |-> IF p = pk THEN [diaries[p] EXCEPT !.views = obj.views + 1] ELSE diaries[p]]

\* views.py:103  Diary.objects.filter(pk=pk).update(views=F("views") + 1)
IncrementViews(pk, obj) ==
    [p \in Pks |-> IF p = pk THEN [diaries[p] EXCEPT !.views = @ + 1] ELSE diaries[p]]

\* the docstring's reading of the threshold ("more than 100 views")
ShouldNotifyAbove(obj) == obj.views > NotifyThreshold

\* views.py:107  if diary.views >= 100: the threshold is included
ShouldNotify(obj) == obj.views >= NotifyThreshold

\* views.py:113-119  send_mail(subject, ..., recipient_list=[diary.author.email])
NotificationMail(obj) == [subject |-> "notification", to |-> obj.author]
Notify(obj) ==
    IF ShouldNotify(obj)
    THEN Len(outbox) < MaxMails /\ outbox' = Append(outbox, NotificationMail(obj))
    ELSE outbox' = outbox

\* a submit that publishes on its own
SubmitObjPublishes(obj, arg) ==
    IF arg = "publish"
    THEN [obj EXCEPT !.status = "published", !.is_published = TRUE]
    ELSE obj

\* views.py:128-130  the publish field asks for moderation
SubmitObj(obj, arg) == IF arg = "publish" THEN [obj EXCEPT !.status = "moderation"] ELSE obj

\* the get_object calls on pk that have counted or are about to count a view
Counting(pk) ==
    BagCardinality([r \in {x \in InFlight : x.pk = pk /\ x.pc \in {"inc", "refresh"}}
                       |-> reqs[r]])


DoneCode(op) == IF op = "detail_get" THEN "200" ELSE "302"

\* of the object get_object loaded, only views can be read before
\* refresh_from_db loads every field again
Loaded(obj) == [NoObj EXCEPT !.views = obj.views]

\* GET or POST /<slug>/: get_object up to the access check (views.py:95-99);
\* a row that is not published has no further statement before get_object returns
DetailStart(op, u, slug, arg) ==
    /\ CanStart
    /\ UNCHANGED <<diaries, nextPk, workers, reads, created, approved>>
    /\ IF DetailGate(u, slug) # "ok"
       THEN Answer(op, u, DetailGate(u, slug)) /\ UNCHANGED outbox
       ELSE LET pk == TheRow(BySlug(slug))
                obj == diaries[pk]
            IN IF CountsView(obj)
               THEN /\ reads[pk] + Counting(pk) < MaxReads
                    /\ Start(Req(op, "inc", pk, Loaded(obj), arg, Sender(op, u)))
                    /\ UNCHANGED outbox
               ELSE /\ Notify(obj)
                    /\ IF op = "detail_post" /\ arg = "publish"
                       THEN Start(Req(op, "save", pk, obj, arg, Sender(op, u)))
                       ELSE Answer(op, u, DoneCode(op))

\* views.py:103  the relative update of the view-count
DetailInc(r) ==
    /\ r.pc = "inc"
    /\ diaries' = IF r.pk \in Pks THEN IncrementViews(r.pk, r.obj) ELSE diaries
    /\ Step(r, [r EXCEPT !.pc = "refresh", !.obj = NoObj])
    /\ UNCHANGED <<nextPk, workers, outbox, reads, created, approved>>

\* views.py:104-120  refresh_from_db (DoesNotExist when the row is gone), then
\* the notification; the GET renders, the POST goes on to post()
DetailRefresh(r) ==
    /\ r.pc = "refresh"
    /\ UNCHANGED <<diaries, nextPk, workers, created, approved>>
    /\ IF r.pk \notin Pks
       THEN /\ Finish(r, "500")
            /\ UNCHANGED <<outbox, reads>>
       ELSE /\ Notify(diaries[r.pk])
            /\ reads' = [reads EXCEPT ![r.pk] = @ + 1]
            /\ IF r.op = "detail_post" /\ r.arg = "publish"
               THEN /\ Step(r, [r EXCEPT !.pc = "save", !.obj = diaries[r.pk]])
               ELSE Finish(r, DoneCode(r.op))

\* views.py:129-131  diary.status = "moderation"; diary.save()
DetailSave(r) ==
    /\ r.op = "detail_post"
    /\ r.pc = "save"
    /\ diaries' = SaveRow(r.pk, SubmitObj(r.obj, r.arg))
    /\ Finish(r, "302")
    /\ UNCHANGED <<nextPk, workers, outbox, reads, created, approved>>

\* GET /<slug>/
NextRead ==
    \/ \E u \in Requesters, s \in UrlSlugs : DetailStart("detail_get", u, s, "")
    \/ \E r \in InFlight : DetailInc(r)
    \/ \E r \in InFlight : DetailRefresh(r)

\* POST /<slug>/
NextSubmit ==
    \/ \E u \in Requesters, s \in UrlSlugs, arg \in {"publish", ""} :
            DetailStart("detail_post", u, s, arg)
    \/ \E r \in InFlight : DetailSave(r)

(* -------------------- DiaryUpdateView, DiaryDeleteView ----------------- *)
\* a gate that looks the slug up among all entries and then checks the author
OwnerGateDenies(u, slug) ==
    IF u = Anon THEN "login"
    ELSE IF BySlug(slug) # {} /\ OwnBySlug(u, slug) = {} THEN "403"
    ELSE Lookup(OwnBySlug(u, slug))

\* LoginRequiredMixin, then get_object on Diary.objects.filter(author=user)
OwnerGate(u, slug) == IF u = Anon THEN "login" ELSE Lookup(OwnBySlug(u, slug))

\* DiaryUpdateForm.save(commit=False): slug from the title if there is none
UpdateFormObj(obj, title) ==
    IF obj.slug = <<>> THEN [obj EXCEPT !.slug = slugify(title)] ELSE obj

\* POST /update/<slug>/: get_object, then the form puts its fields on the object
UpdateStart(u, slug, title) ==
    /\ CanStart
    /\ UNCHANGED <<diaries, nextPk, workers, outbox, reads, created, approved>>
    /\ IF OwnerGate(u, slug) # "ok" THEN Answer("update", u, OwnerGate(u, slug))
       ELSE LET pk == TheRow(OwnBySlug(u, slug)) IN
            Start(Req("update", "save", pk, UpdateFormObj(diaries[pk], title), "", u))

UpdateSave(r) ==
    /\ r.op = "update"
    /\ r.pc = "save"
    /\ diaries' = SaveRow(r.pk, r.obj)
    /\ Finish(r, "302")
    /\ UNCHANGED <<nextPk, workers, outbox, reads, created, approved>>

\* POST /delete/<slug>/: get_object ...
DeleteStart(u, slug) ==
    /\ CanStart
    /\ UNCHANGED <<diaries, nextPk, workers, outbox, reads, created, approved>>
    /\ IF OwnerGate(u, slug) # "ok" THEN Answer("delete", u, OwnerGate(u, slug))
       ELSE Start(Req("delete", "delete", TheRow(OwnBySlug(u, slug)), NoObj, "", u))

\* ... then self.object.delete()
DeleteRow(r) ==
    /\ r.op = "delete"
    /\ r.pc = "delete"
    /\ diaries' = [p \in Pks \ {r.pk} |-> diaries[p]]
    /\ Finish(r, "302")
    /\ UNCHANGED <<nextPk, workers, outbox, reads, created, approved>>

NextEdit ==
    \/ \E u \in Requesters, s \in UrlSlugs, t \in Titles : UpdateStart(u, s, t)
    \/ \E r \in InFlight : UpdateSave(r)
    \/ \E u \in Requesters, s \in UrlSlugs : DeleteStart(u, s)
    \/ \E r \in InFlight : DeleteRow(r)

(* ----------------------------- moderation ----------------------------- *)
\* PermissionRequiredMixin with permission_required = "diary.can_moderate"
HasModeratePerm(u) == u \in Moderators

\* the gate of a view that has LoginRequiredMixin alone
PermissionGateLoginOnly(u) == IF u = Anon THEN "login" ELSE "ok"

\* LoginRequiredMixin, PermissionRequiredMixin: "ok" lets the handler run
PermissionGate(u) ==
    IF u = Anon THEN "login" ELSE IF HasModeratePerm(u) THEN "ok" ELSE "403"

\* the gate, then get_object_or_404(Diary, slug=slug)
ModerationGate(u, slug) ==
    IF PermissionGate(u) # "ok" THEN PermissionGate(u) ELSE Lookup(BySlug(slug))

\* an approve that sets the flag and forgets the status
ModerateObjFlagOnly(obj, action) ==
    IF action = "approve"
    THEN [obj EXCEPT !.is_published = TRUE]
    ELSE IF action = "reject"
    THEN [obj EXCEPT !.status = "rejected"]
    ELSE obj

\* an approve that sets the status and forgets the flag
ModerateObjStatusOnly(obj, action) ==
    IF action = "approve"
    THEN [obj EXCEPT !.status = "published"]
    ELSE IF action = "reject"
    THEN [obj EXCEPT !.status = "rejected"]
    ELSE obj

\* views.py:274-280  what the moderator's form field does to the object
ModerateObj(obj, action) ==
    IF action = "approve"
    THEN [obj EXCEPT !.status = "published", !.is_published = TRUE]
    ELSE IF action = "reject"
    THEN [obj EXCEPT !.status = "rejected"]
    ELSE obj

\* POST /moderation/<slug>/action/
ModerationStart(u, slug, action) ==
    /\ CanStart
    /\ UNCHANGED <<diaries, nextPk, workers, outbox, reads, created, approved>>
    /\ IF ModerationGate(u, slug) # "ok" THEN Answer("moderate", u, ModerationGate(u, slug))
       ELSE IF action \notin {"approve", "reject"} THEN Answer("moderate", u, "302")
       ELSE LET pk == TheRow(BySlug(slug)) IN
            Start(Req("moderate", "save", pk, ModerateObj(diaries[pk], action), action, u))

\* views.py:277, 280  diary.save()
ModerationSave(r) ==
    /\ r.op = "moderate"
    /\ r.pc = "save"
    /\ diaries' = SaveRow(r.pk, r.obj)
    /\ approved' = IF r.arg = "approve"
                   THEN approved \cup {[pk |-> r.pk, by |-> r.by]}
                   ELSE approved
    /\ Finish(r, "302")
    /\ UNCHANGED <<nextPk, workers, outbox, reads, created>>

\* DiaryModerationListView.get_queryset
ModerationQueue == {pk \in Pks : diaries[pk].status = "moderation"}

\* GET /moderation/
ModerationList(u) ==
    /\ CanStart
    /\ Answer("moderation_list", u, IF PermissionGate(u) = "ok" THEN "200" ELSE PermissionGate(u))
    /\ UNCHANGED <<diaries, nextPk, workers, outbox, reads, created, approved>>

NextModeration ==
    \/ \E u \in Requesters, s \in UrlSlugs, a \in {"approve", "reject", ""} :
            ModerationStart(u, s, a)
    \/ \E r \in InFlight : ModerationSave(r)
    \/ \E u \in Requesters : ModerationList(u)

(* ------------------------------ accounts ------------------------------ *)
\* the email is the login identity (users/models.py: USERNAME_FIELD)
Emails == Users
Passwords == {"pw1", "pw2"}
\* User.objects.make_random_password(length=8)
GeneratedPasswords == {"gen"}
\* verification_code = None
NoToken == 0

Registered == DOMAIN accounts
UInFlight == BagToSet(ureqs)

\* a request of users/views.py in flight: the view, the statement it runs
\* next, the account it works on, the object it holds, the code of its URL
UReq(op, pc, email, obj, code) ==
    [op |-> op, pc |-> pc, email |-> email, obj |-> obj, code |-> code]

\* answers of the account views: "invalid" is the form shown again with its
\* errors
UResp(op, code) == [op |-> op, code |-> code, by |-> Anon]

\* the steps of the account views; none of them touches the diary
UStart(r) ==
    ureqs' = ureqs (+) SetToBag({r}) /\ resp' = NoResp /\ UNCHANGED dvars
UStep(r, r2) ==
    /\ ureqs' = (ureqs (-) SetToBag({r})) (+) SetToBag({r2})
    /\ resp' = NoResp
    /\ UNCHANGED dvars
UFinish(r, code) ==
    /\ ureqs' = ureqs (-) SetToBag({r})
    /\ resp' = UResp(r.op, code)
    /\ UNCHANGED dvars
UAnswer(op, code) ==
    ureqs' = ureqs /\ resp' = UResp(op, code) /\ UNCHANGED dvars

\* user.save(): every field of the row is written
WriteAccount(email, obj) ==
    [e \in Registered \cup {email} |-> IF e = email THEN obj ELSE accounts[e]]

\* django.core.mail.send_mail(subject, ..., recipient_list=[to])
SendMail(subject, to) ==
    /\ Len(outbox) < MaxMails
    /\ outbox' = Append(outbox, [subject |-> subject, to |-> to])

\* UserRegisterForm.is_valid: the email is unique (ModelForm.validate_unique).
\* clean_password is the hook of a field named "password"; the form's fields
\* are email, password1 and password2, so no validation calls it
RegisterFormErrors(email, password1, password2) == email \in Registered

\* RegisterView.form_valid up to user.save() (users/views.py:72-76)
RegisterObj(password1) ==
    [is_active |-> FALSE, verification_code |-> nextToken, password |-> password1]

\* POST /users/register/: the form is validated, the object is made
RegisterStart(email, password1, password2) ==
    /\ CanStart
    /\ UNCHANGED <<workers, used, outbox, accounts>>
    /\ IF RegisterFormErrors(email, password1, password2)
       THEN UAnswer("register", "invalid") /\ UNCHANGED nextToken
       ELSE /\ CanInsert
            /\ UStart(UReq("register", "insert", email, RegisterObj(password1), nextToken))
            /\ nextToken' = nextToken + 1

\* users/views.py:77  user.save(): INSERT; the unique email makes a second
\* INSERT of the same email fail with IntegrityError
RegisterInsert(r) ==
    /\ r.op = "register"
    /\ r.pc = "insert"
    /\ UNCHANGED <<workers, used, outbox, nextToken>>
    /\ IF r.email \in Registered
       THEN UFinish(r, "500") /\ UNCHANGED accounts
       ELSE /\ accounts' = WriteAccount(r.email, r.obj)
            /\ UStep(r, [r EXCEPT !.pc = "mail"])

\* users/views.py:82-87  the confirmation mail
RegisterMail(r) ==
    /\ r.op = "register"
    /\ r.pc = "mail"
    /\ SendMail("confirm", r.email)
    /\ UStep(r, [r EXCEPT !.pc = "resave"])
    /\ UNCHANGED <<workers, used, accounts, nextToken>>

\* users/views.py:88  super().form_valid(form): form.save() saves the same
\* instance once more
RegisterResave(r) ==
    /\ r.op = "register"
    /\ r.pc = "resave"
    /\ accounts' = WriteAccount(r.email, r.obj)
    /\ UFinish(r, "302")
    /\ UNCHANGED <<workers, used, outbox, nextToken>>

\* a lookup that takes any account that still waits for its confirmation
ByTokenLoose(code) == {e \in Registered : accounts[e].verification_code # NoToken}

\* User.objects.filter(verification_code=code)
ByToken(code) == {e \in Registered : accounts[e].verification_code = code}

\* users/views.py:116-117
ConfirmObj(obj) == [obj EXCEPT !.is_active = TRUE, !.verification_code = NoToken]

\* GET /users/email-confirm/<code>/: get_object_or_404; for an active account
\* the view returns no response, which Django answers with a server error
ConfirmStart(code) ==
    /\ CanStart
    /\ UNCHANGED <<workers, used, outbox, accounts, nextToken>>
    /\ IF ByToken(code) = {} THEN UAnswer("confirm", "404")
       ELSE IF Cardinality(ByToken(code)) > 1 THEN UAnswer("confirm", "500")
       ELSE LET e == CHOOSE x \in ByToken(code) : TRUE IN
            IF accounts[e].is_active THEN UAnswer("confirm", "500")
            ELSE UStart(UReq("confirm", "save", e, ConfirmObj(accounts[e]), code))

\* users/views.py:118-119  user.save(); redirect
ConfirmSave(r) ==
    /\ r.op = "confirm"
    /\ r.pc = "save"
    /\ accounts' = WriteAccount(r.email, r.obj)
    /\ used' = used \cup {[code |-> r.code, email |-> r.email]}
    /\ UFinish(r, "302")
    /\ UNCHANGED <<workers, outbox, nextToken>>

\* authenticate(username=email, password=password): ModelBackend refuses an
\* account that is not active
Authenticate(email, password) ==
    /\ email \in Registered
    /\ accounts[email].password = password
    /\ accounts[email].is_active

\* POST /users/login/
Login(email, password) ==
    /\ CanStart
    /\ UAnswer("login", IF Authenticate(email, password) THEN "302" ELSE "invalid")
    /\ UNCHANGED <<workers, used, outbox, accounts, nextToken>>

\* users/views.py:161-162  the loaded account with the generated password
ResetObj(obj, password) == [obj EXCEPT !.password = password]

\* POST /users/reset/: User.objects.get(email=email), set_password
ResetStart(email, password) ==
    /\ CanStart
    /\ UNCHANGED <<workers, used, outbox, accounts, nextToken>>
    /\ IF email \notin Registered THEN UAnswer("reset", "invalid")
       ELSE UStart(UReq("reset", "save", email,
                        ResetObj(accounts[email], password), NoToken))

\* users/views.py:163  user.save()
ResetSave(r) ==
    /\ r.op = "reset"
    /\ r.pc = "save"
    /\ accounts' = WriteAccount(r.email, r.obj)
    /\ UStep(r, [r EXCEPT !.pc = "mail"])
    /\ UNCHANGED <<workers, used, outbox, nextToken>>

\* users/views.py:165-171, 176  the mail with the new password; redirect
ResetMail(r) ==
    /\ r.op = "reset"
    /\ r.pc = "mail"
    /\ SendMail("reset", r.email)
    /\ UFinish(r, "302")
    /\ UNCHANGED <<workers, used, accounts, nextToken>>

NextRegister ==
    \/ \E e \in Emails, p1 \in Passwords, p2 \in Passwords : RegisterStart(e, p1, p2)
    \/ \E r \in UInFlight : RegisterInsert(r)
    \/ \E r \in UInFlight : RegisterMail(r)
    \/ \E r \in UInFlight : RegisterResave(r)

NextConfirm ==
    \/ \E code \in 1..nextToken : ConfirmStart(code)
    \/ \E r \in UInFlight : ConfirmSave(r)

NextLogin ==
    \E e \in Emails, p \in Passwords \cup GeneratedPasswords : Login(e, p)

NextReset ==
    \/ \E e \in Emails, p \in GeneratedPasswords : ResetStart(e, p)
    \/ \E r \in UInFlight : ResetSave(r)
    \/ \E r \in UInFlight : ResetMail(r)

(* ------------------------ the mail transport fails --------------------- *)
\* send_mail is called with fail_silently left at False: an error of the
\* transport is raised in the view, which does not catch it (the try of
\* GeneratePasswordView catches User.DoesNotExist only)

\* a view wrapped in a transaction: the failed send takes the update back
RowsRolledBack(pk) == [diaries EXCEPT ![pk].views = @ - 1]

\* no transaction wraps the view: the update of views.py:103 is committed when
\* send_mail raises, and the table stays as it is
RowsAfterFailedSend(pk) == diaries

\* views.py:104-119  refresh_from_db, the threshold is met, send_mail raises
DetailRefreshMailFails(r) ==
    /\ r.pc = "refresh"
    /\ r.pk \in Pks
    /\ ShouldNotify(diaries[r.pk])
    /\ diaries' = RowsAfterFailedSend(r.pk)
    /\ reads' = [reads EXCEPT ![r.pk] = @ + 1]
    /\ Finish(r, "500")
    /\ UNCHANGED <<nextPk, workers, outbox, created, approved>>

\* views.py:107-119 for an entry that is not published: send_mail raises
DetailStartMailFails(op, u, slug) ==
    /\ CanStart
    /\ DetailGate(u, slug) = "ok"
    /\ ~CountsView(diaries[TheRow(BySlug(slug))])
    /\ ShouldNotify(diaries[TheRow(BySlug(slug))])
    /\ Answer(op, u, "500")
    /\ UNCHANGED <<diaries, nextPk, workers, outbox, reads, created, approved>>

\* users/views.py:82-87  send_mail raises; line 88 is not reached
RegisterMailFails(r) ==
    /\ r.op = "register"
    /\ r.pc = "mail"
    /\ UFinish(r, "500")
    /\ UNCHANGED <<workers, used, outbox, accounts, nextToken>>

\* users/views.py:165-171  send_mail raises; line 176 is not reached
ResetMailFails(r) ==
    /\ r.op = "reset"
    /\ r.pc = "mail"
    /\ UFinish(r, "500")
    /\ UNCHANGED <<workers, used, outbox, accounts, nextToken>>

NextMailFails ==
    \/ \E r \in InFlight : DetailRefreshMailFails(r)
    \/ \E u \in Requesters, s \in UrlSlugs : DetailStartMailFails("detail_get", u, s)
    \/ \E r \in UInFlight : RegisterMailFails(r)
    \/ \E r \in UInFlight : ResetMailFails(r)

(* ------------------------------ properties ---------------------------- *)
\* C1: no two entries ever have the same slug, whether they were made by the
\* create form or by saving the model; creates whose titles give the same base
\* slug get different slugs.
C1_SlugUnique ==
    \A p, q \in Pks : p # q => diaries[p].slug # diaries[q].slug

\* C2: a GET of an existing entry by its slug succeeds when the entry is
\* published or the requester is its author; every other requester is refused
\* with 403 (never 404) and the entries stay as they are.
C2_ReadAccess ==
    [][\A u \in Requesters, pk \in Pks :
          DetailStart("detail_get", u, diaries[pk].slug, "") =>
             IF diaries[pk].is_published \/ u = diaries[pk].author
             THEN resp'.code \in {NoResp.code, "200"}
             ELSE resp'.code = "403" /\ diaries' = diaries]_vars

\* C3: under every interleaving of reads, the view-count of an entry is the
\* count it was created with plus one for every read that has passed its
\* increment: no increment is lost and none is applied twice.
C3_ViewsCountReads ==
    \A pk \in Pks :
        LET incremented == {x \in InFlight : x.pk = pk /\ x.pc = "refresh"}
            pending == BagCardinality([r \in incremented |-> reqs[r]])
        IN diaries[pk].views = created[pk] + reads[pk] + pending

\* two reads of one entry have both passed their increment before either ended
C3_TwoReadsInterleaved ==
    \E pk \in Pks, r \in InFlight :
        /\ r.pk = pk /\ r.pc = "refresh" /\ reqs[r] = 2
        /\ diaries[pk].views = created[pk] + 2

C5_UnpublishedReadSilent ==
    [][\A u \in Requesters, pk \in Pks :
          (~diaries[pk].is_published
             /\ DetailStart("detail_get", u, diaries[pk].slug, "")) =>
             (outbox' = outbox /\ diaries' = diaries)]_vars

\* C6 as stated: every entry whose published flag is true has status published.
C6_PublishedHasStatusPublished ==
    \A pk \in Pks : diaries[pk].is_published => diaries[pk].status = "published"

\* C6: every entry whose published flag is true has a status other than
\* unpublished: it is published, waits for moderation again or was rejected.
C6_PublishedNotUnpublished ==
    \A pk \in Pks : diaries[pk].is_published => diaries[pk].status # "no_published"

\* an approved entry that was submitted again
C6_PublishedAndPending ==
    \E pk \in Pks : diaries[pk].is_published /\ diaries[pk].status = "moderation"

\* C7: a submit for moderation sent by anyone but the entry's author leaves the
\* entry's status as it is.
C7_OnlyAuthorSubmits ==
    [][\A r \in InFlight :
          (DetailSave(r) /\ r.pk \in Pks /\ r.by # diaries[r.pk].author) =>
             diaries'[r.pk].status = diaries[r.pk].status]_vars

\* C8: a POST with the publish field by the entry's author is carried out and
\* sets the status to moderation from every status; a POST without the field
\* changes no status.
C8_AuthorSubmitSetsPending ==
    [][/\ \A pk \in Pks :
            DetailStart("detail_post", diaries[pk].author, diaries[pk].slug, "publish")
               => resp' = NoResp
       /\ \A r \in InFlight :
            (DetailSave(r) /\ r.by = r.obj.author) => diaries'[r.pk].status = "moderation"
       /\ \A u \in Requesters, pk \in Pks :
            DetailStart("detail_post", u, diaries[pk].slug, "") =>
               \A q \in Pks : diaries'[q].status = diaries[q].status
       /\ \A r \in InFlight :
            (r.op = "detail_post" /\ r.arg = "" /\ (DetailInc(r) \/ DetailRefresh(r))) =>
               \A q \in Pks : diaries'[q].status = diaries[q].status]_vars

\* C9: a moderator's approve of an entry in any status is carried out and
\* leaves it with status published and the published flag true; a reject leaves
\* it with status rejected and the published flag it was loaded with.
C9_ModeratorDecides ==
    [][/\ \A u \in Moderators, pk \in Pks, a \in {"approve", "reject"} :
            ModerationStart(u, diaries[pk].slug, a) => resp' = NoResp
       /\ \A r \in InFlight :
            ModerationSave(r) =>
               IF r.arg = "approve"
               THEN diaries'[r.pk].status = "published" /\ diaries'[r.pk].is_published
               ELSE /\ diaries'[r.pk].status = "rejected"
                    /\ diaries'[r.pk].is_published = r.obj.is_published]_vars

\* C10: an approve or reject by a requester without the moderation permission
\* is refused and never gets as far as its save, and the moderation queue is
\* refused to such a requester: only holders of the permission get another
\* answer than the login redirect or 403.
C10_ModerationNeedsCapability ==
    /\ \A r \in InFlight : r.op = "moderate" => r.by \in Moderators
    /\ (resp.op \in {"moderate", "moderation_list"} /\ resp.by \notin Moderators)
          => resp.code \in {"login", "403"}

\* an entry waits for moderation and its author's approve was answered with 403
C10_ActionRefused ==
    \E pk \in Pks :
        /\ diaries[pk].status = "moderation"
        /\ resp = [op |-> "moderate", code |-> "403", by |-> diaries[pk].author]

\* C11: a registration whose two passwords differ is refused as invalid: it
\* starts nothing, creates no account, takes no verification code and sends
\* no mail.
C11_MismatchRefused ==
    [][\A e \in Emails, p1 \in Passwords, p2 \in Passwords :
          (p1 # p2 /\ RegisterStart(e, p1, p2)) =>
             /\ resp' = UResp("register", "invalid")
             /\ ureqs' = ureqs
             /\ accounts' = accounts
             /\ nextToken' = nextToken
             /\ outbox' = outbox]_vars

\* C12: an account is inserted inactive and is inactive as long as no
\* confirmation was carried out on it; a confirmation is taken up only for the
\* account that holds the code it carries; a confirmation whose code no account
\* holds is answered 404 and changes and starts nothing.
C12_InactiveUntilConfirmed ==
    [][/\ \A e \in DOMAIN accounts' :
            /\ e \notin Registered => ~accounts'[e].is_active
            /\ accounts'[e].is_active => \E c \in used' : c.email = e
       /\ \A code \in 1..nextToken, r \in BagToSet(ureqs') :
            (ConfirmStart(code) /\ ureqs' = ureqs (+) SetToBag({r})) =>
               /\ r.code = code
               /\ r.email \in Registered
               /\ accounts[r.email].verification_code = code
       /\ \A code \in 1..nextToken :
            (ByToken(code) = {} /\ ConfirmStart(code)) =>
               /\ resp' = UResp("confirm", "404")
               /\ accounts' = accounts
               /\ ureqs' = ureqs]_vars

\* a confirmation with a code no account holds was answered 404 while an
\* account waits inactive; no confirmation was carried out yet
C12_WrongCodeRefused ==
    /\ resp = UResp("confirm", "404")
    /\ used = {}
    /\ \E e \in Registered : ~accounts[e].is_active

\* C13: an active account holds no verification code, and a code a
\* confirmation was carried out with is held by no account afterwards, so
\* that a second confirmation with it finds no account.
C13_TokenSingleUse ==
    /\ \A e \in Registered :
          accounts[e].is_active => accounts[e].verification_code = NoToken
    /\ \A c \in used : ByToken(c.code) = {}

\* C14: a password reset for an email without account is answered as invalid,
\* sends no mail and changes and starts nothing; a reset for an account takes
\* the generated password, writes it to that account and changes no other
\* account, leaves the account's active flag and verification code as they are
\* in the table, and then sends one mail to the account's address.
C14_ResetReplacesPassword ==
    [][/\ \A e \in Emails, p \in GeneratedPasswords :
            ResetStart(e, p) =>
               IF e \notin Registered
               THEN /\ resp' = UResp("reset", "invalid")
                    /\ outbox' = outbox /\ accounts' = accounts /\ ureqs' = ureqs
               ELSE \E r \in BagToSet(ureqs') :
                       /\ ureqs' = ureqs (+) SetToBag({r})
                       /\ r.op = "reset" /\ r.email = e
                       /\ r.obj.password = p
                       /\ r.obj.is_active = accounts[e].is_active
                       /\ r.obj.verification_code = accounts[e].verification_code
       /\ \A r \in UInFlight :
            ResetSave(r) =>
               /\ accounts'[r.email].password = r.obj.password
               /\ accounts'[r.email].is_active = accounts[r.email].is_active
               /\ accounts'[r.email].verification_code =
                     accounts[r.email].verification_code
               /\ \A e \in Registered \ {r.email} : accounts'[e] = accounts[e]
               /\ outbox' = outbox
       /\ \A r \in UInFlight :
            ResetMail(r) =>
               /\ outbox' = Append(outbox, [subject |-> "reset", to |-> r.email])
               /\ accounts' = accounts
               /\ resp' = UResp("reset", "302")]_vars

\* the slug is stored, and every entry that has it is an unpublished entry of
\* somebody else
OthersUnpublished(u, slug) ==
    /\ BySlug(slug) # {}
    /\ \A pk \in BySlug(slug) :
          diaries[pk].author # u /\ ~diaries[pk].is_published

\* C15 as stated: an authenticated user's update or delete of another user's
\* unpublished entry is answered 403 (PermissionDenied), which is not the 404 a
\* slug without entry gets.
C15_OthersEntryDenied ==
    [][\A u \in Users, s \in UrlSlugs :
          OthersUnpublished(u, s) =>
             /\ \A t \in Titles : UpdateStart(u, s, t) => resp'.code = "403"
             /\ DeleteStart(u, s) => resp'.code = "403"]_vars

\* C15 as the code has it: an authenticated user's update or delete of another
\* user's unpublished entry is answered 404, the answer a slug without entry
\* gets, and neither changes an entry nor starts a request.
C15_OthersEntryNotFound ==
    [][\A u \in Users :
          /\ \A s \in UrlSlugs, t \in Titles :
                ((OthersUnpublished(u, s) \/ s = MissingSlug) /\ UpdateStart(u, s, t)) =>
                   /\ resp' = [op |-> "update", code |-> "404", by |-> u]
                   /\ diaries' = diaries /\ reqs' = reqs
          /\ \A s \in UrlSlugs :
                ((OthersUnpublished(u, s) \/ s = MissingSlug) /\ DeleteStart(u, s)) =>
                   /\ resp' = [op |-> "delete", code |-> "404", by |-> u]
                   /\ diaries' = diaries /\ reqs' = reqs]_vars

\* an update or delete of an authenticated user was answered 404 while every
\* stored entry is an unpublished entry of somebody else
C15_RefusedAsNotFound ==
    /\ resp.op \in {"update", "delete"}
    /\ resp.code = "404"
    /\ resp.by \in Users
    /\ StoredSlugs # {}
    /\ \A s \in StoredSlugs : OthersUnpublished(resp.by, s)

\* the slug is stored and no entry that has it is an entry of u
NotAuthor(u, slug) ==
    /\ BySlug(slug) # {}
    /\ \A pk \in BySlug(slug) : diaries[pk].author # u

\* C16: an update or delete request of somebody who is not the author of the
\* entry (another user, a moderator, an anonymous requester) changes no entry
\* and starts nothing; the update and delete statements that run belong to
\* requests of the author; a delete by the author removes the row, no entry is
\* found under its slug afterwards, and a removed row never comes back.
C16_OnlyAuthorEdits ==
    [][/\ \A u \in Requesters, s \in UrlSlugs :
            NotAuthor(u, s) =>
               /\ \A t \in Titles :
                     UpdateStart(u, s, t) => diaries' = diaries /\ reqs' = reqs
               /\ DeleteStart(u, s) => diaries' = diaries /\ reqs' = reqs
       /\ \A r \in InFlight :
            ((UpdateSave(r) \/ DeleteRow(r)) /\ r.pk \in Pks) =>
               r.by = diaries[r.pk].author
       /\ \A r \in InFlight :
            (DeleteRow(r) /\ r.pk \in Pks) =>
               /\ r.pk \notin DOMAIN diaries'
               /\ \A p \in DOMAIN diaries' : diaries'[p].slug # diaries[r.pk].slug
       /\ \A pk \in 1..(nextPk - 1) :
            pk \notin Pks => pk \notin DOMAIN diaries']_vars

\* C17: no step makes the view-count of an entry smaller, whatever reads,
\* edits, submits, approvals and rejections are interleaved with it.
C17_ViewsNeverDecrease ==
    [][\A pk \in Pks \cap DOMAIN diaries' :
          diaries'[pk].views >= diaries[pk].views]_vars

\* C18: when send_mail fails, the request is answered with a server error and
\* is over (nothing of it stays in flight to try again), no mail is in the
\* outbox for it, and what it had written stays: the read's increment is in the
\* row and is counted, the account the registration inserted is in the table
\* with the values it has, and so is the account the reset saved; with one
\* request at a time that is the inactive account with its code, and the
\* account with the generated password.
C18_FailedSendKeepsState ==
    [][/\ \A r \in InFlight :
            DetailRefreshMailFails(r) =>
               /\ diaries' = diaries
               /\ C3_ViewsCountReads'
               /\ resp'.code = "500"
               /\ reqs' = reqs (-) SetToBag({r})
               /\ outbox' = outbox
       /\ \A r \in UInFlight :
            (RegisterMailFails(r) \/ ResetMailFails(r)) =>
               /\ r.email \in Registered
               /\ accounts' = accounts
               /\ resp' = UResp(r.op, "500")
               /\ ureqs' = ureqs (-) SetToBag({r})
               /\ outbox' = outbox
       /\ \A r \in UInFlight :
            (RegisterMailFails(r) /\ workers = 1) => accounts'[r.email] = r.obj
       /\ \A r \in UInFlight :
            (ResetMailFails(r) /\ workers = 1) =>
               accounts'[r.email].password = r.obj.password]_vars

\* the read that brought the only entry to the threshold ended in a server
\* error: its view is counted and no mail was sent
C18_ReadFailedAfterIncrement ==
    /\ resp.op = "detail_get"
    /\ resp.code = "500"
    /\ outbox = <<>>
    /\ \E pk \in Pks :
          /\ Pks = {pk}
          /\ diaries[pk].is_published
          /\ created[pk] = NotifyThreshold - 1
          /\ reads[pk] = 1
          /\ diaries[pk].views = NotifyThreshold

\* what a requester who is not the author can read, and what the home list
\* shows (HomeListView.get_queryset): the published entries
Public == {pk \in Pks : diaries[pk].is_published}

OnlyStatusChanges ==
    /\ DOMAIN diaries' = Pks
    /\ \A pk \in Pks :
          /\ diaries'[pk].views = diaries[pk].views
          /\ diaries'[pk].is_published = diaries[pk].is_published
          /\ diaries'[pk].slug = diaries[pk].slug
          /\ diaries'[pk].author = diaries[pk].author

\* C20: no statement of a submit request (a POST of the detail page with the
\* publish field) changes the view-count, the published flag, the slug or the
\* author of an entry or sends a mail, whether the entry is published or not.
C20_SubmitChangesOnlyStatus ==
    [][/\ \A u \in Requesters, s \in UrlSlugs :
            DetailStart("detail_post", u, s, "publish") =>
               OnlyStatusChanges /\ outbox' = outbox
       /\ \A r \in InFlight :
            (r.op = "detail_post" /\ r.arg = "publish"
               /\ (DetailInc(r) \/ DetailRefresh(r) \/ DetailSave(r))) =>
               OnlyStatusChanges /\ outbox' = outbox]_vars

\* C21: an entry a moderator's approve has published stays published in every
\* step that keeps it in the table, whatever edits, submits, reads, approvals
\* and rejections are interleaved with the approve.
C21_PublishedStaysPublished ==
    [][\A pk \in Pks \cap DOMAIN diaries' :
          (diaries[pk].is_published /\ \E a \in approved : a.pk = pk) =>
             diaries'[pk].is_published]_vars

\* C22: every stored entry whose status is published has the published flag.
C22_StatusPublishedIsPublished ==
    \A pk \in Pks : diaries[pk].status = "published" => diaries[pk].is_published

\* an entry has status published and the flag while an edit or a submit that
\* loaded it is about to save
C22_PublishedWithSavePending ==
    \E pk \in Pks, r \in InFlight :
        /\ diaries[pk].status = "published"
        /\ diaries[pk].is_published
        /\ r.pk = pk
        /\ r.op \in {"update", "detail_post"}
        /\ r.pc = "save"

(* --------------------------- specifications --------------------------- *)
\* the requests of the web application, on entries made by the create form
Next == NextCreate \/ NextRead \/ NextSubmit \/ NextEdit \/ NextModeration
Spec == Init /\ [][Next]_vars

\* rows saved through the model (tests, management command) and reads of them
NextReads == NextModelCreate \/ NextRead
SpecReads == Init /\ [][NextReads]_vars

\* entries made by the create form, their updates and deletes
NextEdits == NextCreate \/ NextEdit
SpecEdits == Init /\ [][NextEdits]_vars

\* reads, registrations and resets with a mail transport that can fail
NextFailing == NextModelCreate \/ NextRead \/ NextRegister \/ NextReset \/ NextMailFails
SpecFailing == Init /\ [][NextFailing]_vars

\* the requests of users/views.py
NextUsers == NextRegister \/ NextConfirm \/ NextLogin \/ NextReset
SpecUsers == Init /\ [][NextUsers]_vars

====
